---------------------------- MODULE Spec2Model ----------------------------
(***************************************************************************)
(* A model of the JFIF decoder of src/src/jpeg/jfif.rs: JFIFImage::parse   *)
(* (the preamble check, the APP0 fields, the marker-scanner loop with one  *)
(* handler per marker, the block loop of a scan) and the pure function     *)
(* zigzag().                                                               *)
(*                                                                         *)
(* Byte offsets are 0-based as in the source; B(k) is vec[k].  A Rust      *)
(* panic (index out of bounds, expect on None, panic!, arithmetic overflow *)
(* under overflow checks) ends parse with result.kind = "Panic"; a         *)
(* returned Err(String) ends it with result.kind = "Err".                  *)
(*                                                                         *)
(* usize arithmetic is modulo 2^64.  The model carries data_length as the  *)
(* integer L - 2, which is congruent to the wrapped usize value when the   *)
(* build has no overflow checks and L < 2; every later use adds it to an   *)
(* offset of at least 4, so the sums agree with the wrapped sums.          *)
(***************************************************************************)
EXTENDS Integers, Sequences, FiniteSets, TLC

(* ------------------------------ bounds --------------------------------- *)

\* the number of segments drawn freely from SegmentMenu after the APP0 segment
MaxSegments == 2

\* the largest num_read huffman::decode reports for one block
MaxNumRead == 2

\* the number of entropy-coded bytes that follow a scan header in StreamInputs
MaxEntropy == 2

\* the offsets added to the test vectors of zigzag()
MaxOffset == 15

(* --------------------------- program constants -------------------------- *)

SOI == 216

APP0 == 224

VARIABLES
    vec,               \* the input buffer, parse's argument
    overflow_checks,   \* the build: TRUE panics on integer overflow, FALSE wraps
    pc,                \* position in parse: "preamble", "app0", "scan", "blocks", "done"
    result,            \* what parse produced: nothing yet, Err(msg) or a panic
    hdr_read,          \* highest index of vec read by lines 95-110 so far, -1 if none
    jfif_image,        \* the JFIFImage under construction (line 115)
    comment,           \* the local `comment` of the comment handler (line 141)
    i,                 \* the marker scanner's cursor (line 132)
    data_length,       \* the local computed at the loop head (line 136)
    scan,              \* the locals of the Start of Scan handler (lines 217-270)
    n_blocks,          \* n_blocks_x * n_blocks_y, the block loop's range (line 276)
    image_blocks,      \* the number of blocks pushed to image_blocks (line 298)
    dequantized,       \* the last dequantized block (line 282)
    decoded,           \* the last block huffman::decode returned (line 277)
    scan_started,      \* history: the scanner has begun handling a Start of Scan
    zz_pc,             \* position in zigzag(): "idle", "call", "returned", "panicked"
    zz_vec,            \* zigzag()'s argument
    zz_res             \* zigzag()'s result

vars == <<vec, overflow_checks, pc, result, hdr_read, i, data_length, comment,
          scan, n_blocks, image_blocks, dequantized, decoded, scan_started,
          jfif_image, zz_pc, zz_vec, zz_res>>

zz_vars == <<zz_pc, zz_vec, zz_res>>

(* ------------------------------ helpers -------------------------------- *)

None == [none |-> TRUE]

Min(a, b) == IF a < b THEN a ELSE b

\* vec[k] of the source, k 0-based
B(k) == vec[k + 1]

\* &v[a..b] of the source; the caller checks a <= b <= Len(v)
Slice(v, a, b) == SubSeq(v, a + 1, b)

u8s_to_u16(bytes) == bytes[1] * 256 + bytes[2]

\* the closure of line 130, as the integer L - 2 (see the module comment)
bytes_to_len(a, b) == a * 256 + b - 2

JFIFVersion_from_bytes(msb, lsb) ==
    IF msb = 1 /\ lsb = 1
    THEN [ok |-> TRUE, value |-> "V1_01"]
    ELSE [ok |-> FALSE, value |-> "Illegal version: (" \o ToString(msb) \o ", " \o ToString(lsb) \o ")"]

JFIFUnits_from_u8(byte) ==
    IF byte = 1 THEN [ok |-> TRUE, value |-> "NoUnits"]
    ELSE IF byte = 2 THEN [ok |-> TRUE, value |-> "DotsPerInch"]
    ELSE IF byte = 3 THEN [ok |-> TRUE, value |-> "DotsPerCm"]
    ELSE [ok |-> FALSE, value |-> "Illegal unit byte: " \o ToString(byte)]

NoResult == [kind |-> "None", msg |-> ""]

Err(m) == [kind |-> "Err", msg |-> m]

Panic(m) == [kind |-> "Panic", msg |-> m]

\* a continuation byte of UTF-8
Cont(b) == b \in 128..191

RECURSIVE from_utf8(_)
\* std::str::from_utf8(s).is_ok(): s is well-formed UTF-8 (no overlong forms,
\* no surrogates, nothing above U+10FFFF)
from_utf8(s) ==
    IF s = <<>> THEN TRUE
    ELSE LET b == s[1]
             n == Len(s)
         IN  IF b < 128 THEN from_utf8(SubSeq(s, 2, n))
             ELSE IF b \in 194..223
                  THEN n >= 2 /\ Cont(s[2]) /\ from_utf8(SubSeq(s, 3, n))
             ELSE IF b \in 224..239
                  THEN /\ n >= 3
                       /\ s[2] \in (IF b = 224 THEN 160..191
                                    ELSE IF b = 237 THEN 128..159 ELSE 128..191)
                       /\ Cont(s[3])
                       /\ from_utf8(SubSeq(s, 4, n))
             ELSE IF b \in 240..244
                  THEN /\ n >= 4
                       /\ s[2] \in (IF b = 240 THEN 144..191
                                    ELSE IF b = 244 THEN 128..143 ELSE 128..191)
                       /\ Cont(s[3])
                       /\ Cont(s[4])
                       /\ from_utf8(SubSeq(s, 5, n))
             ELSE FALSE

(* ------------------------------ inputs --------------------------------- *)
(* The byte buffers parse is run on.  Three families: buffers around the   *)
(* 20-byte APP0 header (prefixes and single-byte alterations), an APP0     *)
(* header followed by up to MaxSegments segments of SegmentMenu, and       *)
(* complete streams SOI APP0 DQT SOF0 DHT* SOS data EOI.                   *)

Bytes16(n) == <<n \div 256, n % 256>>

Repeat(b, n) == [k \in 1..n |-> b]

\* FF D8 FF E0 len "JFIF" 00 version units x_density y_density thumbnail
App0Header(len, un, xd, yd) ==
    <<255, SOI, 255, APP0>> \o Bytes16(len) \o <<74, 70, 73, 70, 0, 1, 1, un>>
        \o Bytes16(xd) \o Bytes16(yd) \o <<0, 0>>

GoodApp0 == App0Header(16, 1, 8, 8)

\* an APP0 segment of length 19 that carries a 1x1 RGB thumbnail
ThumbApp0 ==
    <<255, SOI, 255, APP0>> \o Bytes16(19) \o <<74, 70, 73, 70, 0, 1, 1, 1>>
        \o Bytes16(8) \o Bytes16(8) \o <<1, 1, 10, 20, 30>>

Prefix(v, n) == SubSeq(v, 1, Min(n, Len(v)))

\* v with the byte at 0-based index p replaced by b
Alter(v, p, b) == [v EXCEPT ![p + 1] = b]

PreambleInputs ==
    {Prefix(GoodApp0, n) : n \in 0..20}
        \cup {Prefix(Alter(h, p, b), n) :
                 h \in {GoodApp0, ThumbApp0}, p \in 0..13, b \in {0, 1, 74},
                 n \in {11, 12, 13, 14, 20}}

ComSegment(len, payload) == <<255, 254>> \o Bytes16(len) \o payload

\* FF DB len (precision, id) values
DqtSegment(len, id, values) == <<255, 219>> \o Bytes16(len) \o <<id>> \o values

\* the 64 entries of a quantization table whose first entry is q
QuantValues(q) == [k \in 1..64 |-> IF k = 1 THEN q ELSE k]

\* FF C0 len precision lines samples/line components (id, sampling, selector)*
Sof0Segment(lines, samples, ncomp, qsel) ==
    <<255, 192>> \o Bytes16(8 + 3 * ncomp) \o <<8>> \o Bytes16(lines)
        \o Bytes16(samples) \o <<ncomp>>
        \o [k \in 1..(3 * ncomp) |-> IF k % 3 = 1 THEN (k + 2) \div 3
                                     ELSE IF k % 3 = 2 THEN 17 ELSE qsel]

\* FF C4 len (class, id) 16 counts, symbols: two codes of length 2
DhtSegment(class, id) ==
    <<255, 196>> \o Bytes16(21) \o <<class * 16 + id>>
        \o <<0, 2>> \o Repeat(0, 14) \o <<0, 1>>

\* FF DA len components (selector, tables)* Ss Se AhAl
SosSegment(ncomp, sel, dc, ac) ==
    <<255, 218>> \o Bytes16(6 + 2 * ncomp) \o <<ncomp>>
        \o [k \in 1..(2 * ncomp) |-> IF k % 2 = 1 THEN sel ELSE dc * 16 + ac]
        \o <<0, 63, 0>>

DriSegment == <<255, 221, 0, 4, 0, 1>>

EOI == <<255, 217>>

SegmentMenu ==
    { ComSegment(4, <<104, 105>>),          \* "hi"
      ComSegment(4, <<195, 169>>),          \* U+00E9
      ComSegment(4, <<195, 40>>),           \* a lead byte without continuation
      ComSegment(3, <<255>>),               \* no UTF-8 sequence starts with FF
      ComSegment(2, <<>>),                  \* an empty comment
      ComSegment(0, <<>>),                  \* a length below 2
      ComSegment(40, <<104>>),              \* a length past the end
      DqtSegment(67, 0, QuantValues(16)),
      DqtSegment(5, 1, <<1, 2>>),
      DqtSegment(4, 5, <<1>>),
      Sof0Segment(8, 8, 1, 0),
      Sof0Segment(8, 8, 3, 0),
      DhtSegment(0, 0),
      DhtSegment(1, 0),
      DhtSegment(0, 4),
      SosSegment(1, 1, 0, 0) \o <<0, 0>>,
      SosSegment(3, 1, 0, 0),
      DriSegment,
      EOI,
      <<255, 225, 0, 2>>,                   \* APP1, not handled
      <<0, 0, 0, 0>> }

RECURSIVE SegmentSeqs(_)
\* the concatenations of at most n segments of the menu
SegmentSeqs(n) ==
    IF n = 0 THEN {<<>>}
    ELSE LET shorter == SegmentSeqs(n - 1)
         IN  shorter \cup {s \o m : s \in shorter, m \in SegmentMenu}

SegmentInputs ==
    {GoodApp0 \o s : s \in SegmentSeqs(MaxSegments)}
        \cup {ThumbApp0 \o s : s \in SegmentSeqs(1)}

\* (x_density, y_density) of the APP0 header
Densities == {<<8, 8>>, <<1, 1>>, <<16, 16>>, <<65535, 8>>, <<2048, 2048>>}

\* (samples per line, number of lines) of the frame header
FrameDimensions == {<<8, 8>>, <<16, 16>>}

\* what follows the entropy-coded data of a stream
Trailers ==
    { EOI,
      Repeat(0, 10) \o EOI,
      Repeat(0, 10) \o DqtSegment(5, 1, <<1, 2>>) \o DhtSegment(0, 2) \o EOI }

\* SOI APP0 DQT SOF0 DHT(DC0) DHT(AC0) DHT(DC1) DHT(AC1) SOS data trailer
Stream(dens, dims, q, qsel, dc, ac, nent, trailer) ==
    App0Header(16, 1, dens[1], dens[2])
        \o DqtSegment(67, 0, QuantValues(q))
        \o Sof0Segment(dims[2], dims[1], 1, qsel)
        \o DhtSegment(0, 0) \o DhtSegment(1, 0)
        \o DhtSegment(0, 1) \o DhtSegment(1, 1)
        \o SosSegment(1, 1, dc, ac)
        \o Repeat(0, nent) \o trailer

StreamInputs ==
    {Stream(dens, dims, q, qsel, dc, ac, nent, trailer) :
        dens \in Densities, dims \in FrameDimensions, q \in {16, 255},
        qsel \in {0, 2}, dc \in {0, 3, 5}, ac \in {0, 1, 3},
        nent \in {0, MaxEntropy}, trailer \in Trailers}

\* the well-formed single-frame, single-scan, single-component streams among them
WellFormedStreams ==
    {Stream(dens, dims, q, 0, 0, ac, MaxEntropy, EOI) :
        dens \in {<<8, 8>>, <<1, 1>>}, dims \in FrameDimensions,
        q \in {16}, ac \in {0, 1}}

Inputs == PreambleInputs \cup SegmentInputs \cup StreamInputs

(* ------------------------------- parse --------------------------------- *)

NoTables == [id \in 0..3 |-> None]

NoScan == [ac_table_id |-> 0, dc_table_id |-> 0, quant_table_id |-> 0]

Init ==
    /\ vec \in Inputs
    /\ overflow_checks \in BOOLEAN
    /\ pc = "preamble"
    /\ result = NoResult
    /\ hdr_read = -1
    /\ jfif_image = None
    /\ comment = None
    /\ i = 0
    /\ data_length = 0
    /\ scan = NoScan
    /\ n_blocks = 0
    /\ image_blocks = 0
    /\ dequantized = <<>>
    /\ decoded = <<>>
    /\ scan_started = FALSE
    /\ zz_pc = "idle"
    /\ zz_vec = <<>>
    /\ zz_res = <<>>

\* parse ends: `return Err(..)`, `try!` on an Err, or a panic
Stop(r) ==
    /\ pc' = "done"
    /\ result' = r

\* the condition of lines 100-102 without its last comparison, vec[10] != 0x00
Signature_NoTerminator ==
    << <<0, 255>>, <<1, SOI>>, <<2, 255>>, <<3, APP0>>, <<6, 74>>, <<7, 70>>,
       <<8, 73>>, <<9, 70>> >>

\* the 0-based indices the condition of lines 100-102 compares, in order, with
\* the values it compares them to
Signature ==
    << <<0, 255>>, <<1, SOI>>, <<2, 255>>, <<3, APP0>>, <<6, 74>>, <<7, 70>>,
       <<8, 73>>, <<9, 70>>, <<10, 0>> >>

\* the positions of Signature at which vec differs
Mismatches == {k \in 1..Len(Signature) : B(Signature[k][1]) # Signature[k][2]}

\* the first position of Signature at which vec differs: || stops there
FirstMismatch == CHOOSE k \in Mismatches : \A m \in Mismatches : k <= m

\* lines 95-104
ParsePreamble ==
    /\ pc = "preamble"
    /\ IF Len(vec) < 11
       THEN Stop(Err("input is too short")) /\ UNCHANGED hdr_read
       ELSE IF Mismatches # {}
       THEN Stop(Err("Header mismatch"))
                /\ hdr_read' = Signature[FirstMismatch][1]
       ELSE /\ pc' = "app0"
            /\ hdr_read' = 10
            /\ UNCHANGED result
    /\ UNCHANGED <<vec, overflow_checks, scan_started, decoded, jfif_image, comment, i, data_length,
                   scan, n_blocks, image_blocks, dequantized, zz_vars>>

\* the outcome of lines 105-110 on a buffer of n bytes: what parse does and the
\* highest index read
App0Outcome ==
    LET n == Len(vec)
        version == JFIFVersion_from_bytes(B(11), B(12))
        units == JFIFUnits_from_u8(B(13))
        oob == Panic("index out of bounds")
    IN  IF n <= 12 THEN [stop |-> TRUE, result |-> oob, read |-> n - 1]
        ELSE IF ~version.ok
             THEN [stop |-> TRUE, result |-> Err(version.value), read |-> 12]
        ELSE IF n <= 13 THEN [stop |-> TRUE, result |-> oob, read |-> 12]
        ELSE IF ~units.ok
             THEN [stop |-> TRUE, result |-> Err(units.value), read |-> 13]
        ELSE IF n < 16 THEN [stop |-> TRUE, result |-> oob, read |-> 13]
        ELSE IF n < 18 THEN [stop |-> TRUE, result |-> oob, read |-> 15]
        ELSE IF n < 20 THEN [stop |-> TRUE, result |-> oob, read |-> n - 1]
        ELSE [stop |-> FALSE, result |-> NoResult, read |-> 19]

\* lines 105-132: the APP0 fields, the JFIFImage, the cursor
ParseApp0 ==
    /\ pc = "app0"
    /\ hdr_read' = App0Outcome.read
    /\ IF App0Outcome.stop
       THEN Stop(App0Outcome.result) /\ UNCHANGED <<jfif_image, i>>
       ELSE /\ jfif_image' =
                [version |-> JFIFVersion_from_bytes(B(11), B(12)).value,
                 units |-> JFIFUnits_from_u8(B(13)).value,
                 dimensions |-> <<u8s_to_u16(Slice(vec, 14, 16)),
                                  u8s_to_u16(Slice(vec, 16, 18))>>,
                 thumbnail_dimensions |-> <<B(18), B(19)>>,
                 comment |-> None,
                 huffman_ac_tables |-> NoTables,
                 huffman_dc_tables |-> NoTables,
                 quantization_tables |-> NoTables,
                 frame_header |-> None]
            /\ i' = 20
            /\ pc' = "scan"
            /\ UNCHANGED result
    /\ UNCHANGED <<vec, overflow_checks, scan_started, decoded, comment, data_length, scan, n_blocks,
                   image_blocks, dequantized, zz_vars>>

(* ---------------------- the marker scanner's loop ----------------------- *)

OutOfBounds == Panic("index out of bounds")

\* the length field of the segment at the cursor
SegmentLength == B(i + 2) * 256 + B(i + 3)

\* line 136: data_length of the segment at the cursor
DataLength == bytes_to_len(B(i + 2), B(i + 3))

\* line 136 completes: both length bytes are in the buffer and the subtraction
\* does not panic
HeadOk ==
    /\ i + 3 < Len(vec)
    /\ ~(overflow_checks /\ SegmentLength < 2)

\* line 137: the two bytes the match dispatches on
Marker == <<B(i), B(i + 1)>>

\* i + 4 + data_length, the offset just past the segment at the cursor
SegmentEnd == i + 4 + DataLength

\* &vec[a..b] panics unless a <= b <= vec.len()
SliceOk(a, b) == a <= b /\ b <= Len(vec)

\* what a handler that fails leaves behind
Abort(r) ==
    /\ Stop(r)
    /\ data_length' = DataLength
    /\ UNCHANGED <<i, jfif_image, comment, scan, n_blocks, image_blocks, dequantized>>

\* line 318 as `i += data_length`, without the 4 bytes of the marker and the
\* length field
Advance_OmitHeader ==
    /\ i' = i + DataLength
    /\ data_length' = DataLength
    /\ pc' = "scan"
    /\ UNCHANGED result

\* line 318, reached by the handlers that fall out of the match
Advance ==
    /\ i' = i + 4 + DataLength
    /\ data_length' = DataLength
    /\ pc' = "scan"
    /\ UNCHANGED result

\* line 136 panics: a length byte is past the end of the buffer, or the
\* length is below 2 in a build with overflow checks
LoopHeadPanic ==
    /\ pc = "scan"
    /\ ~HeadOk
    /\ Stop(IF i + 3 < Len(vec) THEN Panic("attempt to subtract with overflow")
            ELSE OutOfBounds)
    /\ UNCHANGED <<vec, overflow_checks, scan_started, decoded, hdr_read, jfif_image, comment, i,
                   data_length, scan, n_blocks, image_blocks, dequantized, zz_vars>>

\* the comment handler with from_utf8(..).unwrap() in place of the match of
\* lines 141-147
Comment_Unwrap ==
    /\ pc = "scan" /\ HeadOk
    /\ Marker = <<255, 254>>
    /\ IF ~SliceOk(i + 4, SegmentEnd)
       THEN Abort(Panic("slice index out of range"))
       ELSE IF ~from_utf8(Slice(vec, i + 4, SegmentEnd))
       THEN Abort(Panic("called Result::unwrap on an Err value"))
       ELSE /\ comment' = Slice(vec, i + 4, SegmentEnd)
            /\ Advance
            /\ UNCHANGED <<jfif_image, scan, n_blocks, image_blocks, dequantized>>
    /\ UNCHANGED <<vec, overflow_checks, scan_started, decoded, hdr_read, zz_vars>>

\* lines 138-149: (0xff, 0xfe), a comment
Comment ==
    /\ pc = "scan" /\ HeadOk
    /\ Marker = <<255, 254>>
    /\ IF ~SliceOk(i + 4, SegmentEnd)
       THEN Abort(Panic("slice index out of range"))
       ELSE /\ comment' = IF from_utf8(Slice(vec, i + 4, SegmentEnd))
                          THEN Slice(vec, i + 4, SegmentEnd)
                          ELSE <<>>
            /\ Advance
            /\ UNCHANGED <<jfif_image, scan, n_blocks, image_blocks, dequantized>>
    /\ UNCHANGED <<vec, overflow_checks, scan_started, decoded, hdr_read, zz_vars>>

\* lines 150-164: (0xff, 0xdb), a quantization table
QuantizationTable ==
    /\ pc = "scan" /\ HeadOk
    /\ Marker = <<255, 219>>
    /\ IF i + 4 >= Len(vec) THEN Abort(OutOfBounds)
       ELSE IF ~SliceOk(i + 5, SegmentEnd)
            THEN Abort(Panic("slice index out of range"))
       ELSE LET identifier == B(i + 4) % 16
                table == Slice(vec, i + 5, SegmentEnd)
            IN  IF identifier >= 4 THEN Abort(OutOfBounds)
                ELSE /\ jfif_image' =
                            [jfif_image EXCEPT !.quantization_tables[identifier] = table]
                     /\ Advance
                     /\ UNCHANGED <<comment, scan, n_blocks, image_blocks, dequantized>>
    /\ UNCHANGED <<vec, overflow_checks, scan_started, decoded, hdr_read, zz_vars>>

\* lines 165-194: (0xff, 0xc0), the frame header of a baseline DCT frame
BaselineDCT ==
    /\ pc = "scan" /\ HeadOk
    /\ Marker = <<255, 192>>
    /\ IF i + 9 >= Len(vec) THEN Abort(OutOfBounds)
       ELSE IF B(i + 9) # 1 THEN Abort(Panic("FIXME! 'Baseline DCT"))
       ELSE IF i + 12 >= Len(vec) THEN Abort(OutOfBounds)
       ELSE LET frame_component ==
                    [component_id |-> B(i + 10),
                     horizontal_sampling_factor |-> B(i + 11) \div 16,
                     vertical_sampling_factor |-> B(i + 11) % 16,
                     quantization_selector |-> B(i + 12)]
                frame_header ==
                    [sample_precision |-> B(i + 4),
                     num_lines |-> u8s_to_u16(Slice(vec, i + 5, Len(vec))),
                     samples_per_line |-> u8s_to_u16(Slice(vec, i + 7, Len(vec))),
                     image_components |-> B(i + 9),
                     frame_components |-> <<frame_component>>]
            IN  /\ jfif_image' = [jfif_image EXCEPT !.frame_header = frame_header]
                /\ Advance
                /\ UNCHANGED <<comment, scan, n_blocks, image_blocks, dequantized>>
    /\ UNCHANGED <<vec, overflow_checks, scan_started, decoded, hdr_read, zz_vars>>

\* huffman::Table::from_size_data_tables: the table of 16 counts and the symbols
from_size_data_tables(size_area, data_area) ==
    [size_area |-> size_area, data_area |-> data_area]

\* lines 195-213: (0xff, 0xc4), a Huffman table
DefineHuffmanTable ==
    /\ pc = "scan" /\ HeadOk
    /\ Marker = <<255, 196>>
    /\ IF i + 4 >= Len(vec) THEN Abort(OutOfBounds)
       ELSE IF ~SliceOk(i + 5, i + 5 + 16) \/ ~SliceOk(i + 5 + 16, SegmentEnd)
            THEN Abort(Panic("slice index out of range"))
       ELSE LET table_class == B(i + 4) \div 16
                table_dest_id == B(i + 4) % 16
                huffman_table ==
                    from_size_data_tables(Slice(vec, i + 5, i + 5 + 16),
                                          Slice(vec, i + 5 + 16, SegmentEnd))
            IN  IF table_dest_id >= 4 THEN Abort(OutOfBounds)
                ELSE /\ jfif_image' =
                            IF table_class = 0
                            THEN [jfif_image EXCEPT
                                     !.huffman_dc_tables[table_dest_id] = huffman_table]
                            ELSE [jfif_image EXCEPT
                                     !.huffman_ac_tables[table_dest_id] = huffman_table]
                     /\ Advance
                     /\ UNCHANGED <<comment, scan, n_blocks, image_blocks, dequantized>>
    /\ UNCHANGED <<vec, overflow_checks, scan_started, decoded, hdr_read, zz_vars>>

\* lines 303-308: (0xff, 0xdd), a restart interval definition
RestartInterval ==
    /\ pc = "scan" /\ HeadOk
    /\ Marker = <<255, 221>>
    /\ Abort(Panic("got to restart interval def"))
    /\ UNCHANGED <<vec, overflow_checks, scan_started, decoded, hdr_read, zz_vars>>

Recognized ==
    {<<255, 254>>, <<255, 219>>, <<255, 192>>, <<255, 196>>, <<255, 218>>, <<255, 221>>}

\* lines 309-316 and 320: any other pair of bytes leaves the loop, and the
\* statement after the loop is panic!("WHAT TO DO")
Unhandled ==
    /\ pc = "scan" /\ HeadOk
    /\ Marker \notin Recognized
    /\ Abort(Panic("WHAT TO DO"))
    /\ UNCHANGED <<vec, overflow_checks, scan_started, decoded, hdr_read, zz_vars>>

(* ------------------------------ the scan -------------------------------- *)

\* FrameHeader::component_header: the components whose id is `id`
component_header(frame_header, id) ==
    SelectSeq(frame_header.frame_components, LAMBDA c : c.component_id = id)

\* a u16 sum or product: its wrapped value, and whether it overflowed
U16(x) == [value |-> x % 65536, overflow |-> x > 65535]

\* (d + 7) / 8 of lines 274-275, in u16
BlocksAcross(d) == [value |-> U16(d + 7).value \div 8, overflow |-> U16(d + 7).overflow]

\* lines 274-276: n_blocks_x * n_blocks_y, in u16
BlockCount(dimensions) ==
    LET n_blocks_x == BlocksAcross(dimensions[1])
        n_blocks_y == BlocksAcross(dimensions[2])
        product == U16(n_blocks_x.value * n_blocks_y.value)
    IN  [value |-> product.value,
         overflow |-> n_blocks_x.overflow \/ n_blocks_y.overflow \/ product.overflow]

\* lines 240-270: the panic of the table lookups of a scan, or None
TableFault(ac_table_id, dc_table_id, scan_component_selector) ==
    LET fh == jfif_image.frame_header
    IN  IF ac_table_id >= 4 THEN OutOfBounds
        ELSE IF jfif_image.huffman_ac_tables[ac_table_id] = None
             THEN Panic("Did not find AC table")
        ELSE IF dc_table_id >= 4 THEN OutOfBounds
        ELSE IF jfif_image.huffman_dc_tables[dc_table_id] = None
             THEN Panic("Did not find DC table")
        ELSE IF fh = None THEN Panic("jfif_image has no frame_header!")
        ELSE IF component_header(fh, scan_component_selector) = <<>>
             THEN Panic("Could not find frame component for scan_component_selector")
        ELSE LET quant_table_id ==
                     component_header(fh, scan_component_selector)[1].quantization_selector
             IN  IF quant_table_id >= 4 THEN OutOfBounds
                 ELSE IF jfif_image.quantization_tables[quant_table_id] = None
                      THEN Panic("Did not find quantization table of id")
                 ELSE None

\* lines 214-276: (0xff, 0xda), the scan header, the table lookups and the
\* range of the block loop
StartOfScan ==
    /\ pc = "scan" /\ HeadOk
    /\ Marker = <<255, 218>>
    /\ scan_started' = TRUE
    /\ data_length' = DataLength
    /\ IF i + 4 >= Len(vec) THEN Stop(OutOfBounds) /\ UNCHANGED <<i, scan, n_blocks, image_blocks>>
       ELSE IF B(i + 4) # 1
            THEN Stop(Panic("FIXME! I took the easy way!"))
                    /\ UNCHANGED <<i, scan, n_blocks, image_blocks>>
       ELSE IF i + 6 >= Len(vec) THEN Stop(OutOfBounds) /\ UNCHANGED <<i, scan, n_blocks, image_blocks>>
       ELSE IF i + 9 >= Len(vec)
            THEN Stop(OutOfBounds) /\ i' = i + 2 /\ UNCHANGED <<scan, n_blocks, image_blocks>>
       ELSE LET scan_component_selector == B(i + 5)
                dc_table_id == B(i + 6) \div 16
                ac_table_id == B(i + 6) % 16
                fault == TableFault(ac_table_id, dc_table_id, scan_component_selector)
                count == BlockCount(jfif_image.dimensions)
            IN  /\ i' = i + 10
                /\ IF fault # None
                   THEN Stop(fault) /\ UNCHANGED <<scan, n_blocks, image_blocks>>
                   ELSE /\ scan' =
                            [ac_table_id |-> ac_table_id,
                             dc_table_id |-> dc_table_id,
                             quant_table_id |->
                                 component_header(jfif_image.frame_header,
                                     scan_component_selector)[1].quantization_selector]
                        /\ image_blocks' = 0
                        /\ IF overflow_checks /\ count.overflow
                           THEN Stop(Panic("arithmetic overflow")) /\ UNCHANGED n_blocks
                           ELSE /\ n_blocks' = count.value
                                /\ pc' = "blocks"
                                /\ UNCHANGED result
    /\ UNCHANGED <<vec, overflow_checks, decoded, hdr_read, jfif_image, comment,
                   dequantized, zz_vars>>

\* the coefficients huffman::decode hands back for one block: the DC value
\* first, up to the largest magnitude of category 11
Coefficients == {-2047, -1, 0, 1, 2047}

\* huffman::decode(ac_table, dc_table, data): a block of 64 coefficients and
\* the amount of data read for it (at least one unit); reading past the end of
\* the data fails
huffman_decode(ac_table, dc_table, data) ==
    IF data = <<>>
    THEN {[ok |-> FALSE, decoded |-> <<>>, num_read |-> 0]}
    ELSE {[ok |-> TRUE, decoded |-> [k \in 1..64 |-> IF k = 1 THEN c ELSE 0], num_read |-> r] :
             c \in Coefficients, r \in 1..MaxNumRead}

\* an i16 product: its wrapped value, and whether it overflowed
I16(x) ==
    [value |-> ((x + 32768) % 65536) - 32768, overflow |-> x > 32767 \/ x < -32768]

\* lines 282-289: quant_table zipped with decoded, multiplied in i16
Dequantize(quant_table, block) ==
    [k \in 1..Min(Len(quant_table), Len(block)) |-> I16(quant_table[k] * block[k])]

\* lines 276-301: one iteration of the block loop.  The inverse transform and
\* the rounding to u8 of lines 291-298 produce the pushed block's samples in
\* floating point; the model keeps the dequantized block and counts the push.
DecodeBlock ==
    /\ pc = "blocks"
    /\ image_blocks < n_blocks
    /\ IF i > Len(vec)
       THEN Stop(Panic("slice index out of range"))
                /\ UNCHANGED <<i, image_blocks, dequantized, decoded>>
       ELSE \E out \in huffman_decode(jfif_image.huffman_ac_tables[scan.ac_table_id],
                                      jfif_image.huffman_dc_tables[scan.dc_table_id],
                                      Slice(vec, i, Len(vec))) :
                LET products ==
                        Dequantize(jfif_image.quantization_tables[scan.quant_table_id],
                                   out.decoded)
                IN  IF ~out.ok
                    THEN Stop(Panic("huffman::decode"))
                            /\ UNCHANGED <<i, image_blocks, dequantized, decoded>>
                    ELSE IF Len(out.decoded) # 64
                    THEN Stop(Panic("length should be 64!!"))
                            /\ decoded' = out.decoded
                            /\ UNCHANGED <<i, image_blocks, dequantized>>
                    ELSE IF overflow_checks /\ \E k \in DOMAIN products : products[k].overflow
                    THEN Stop(Panic("attempt to multiply with overflow"))
                            /\ decoded' = out.decoded
                            /\ UNCHANGED <<i, image_blocks, dequantized>>
                    ELSE /\ dequantized' = [k \in DOMAIN products |-> products[k].value]
                         /\ decoded' = out.decoded
                         /\ image_blocks' = image_blocks + 1
                         /\ i' = i + out.num_read
                         /\ UNCHANGED <<pc, result>>
    /\ UNCHANGED <<vec, overflow_checks, scan_started, hdr_read, jfif_image, comment,
                   data_length, scan, n_blocks, zz_vars>>

\* lines 301-302 and 318: the block loop is over, the match arm ends and the
\* cursor advances by 4 + data_length
ScanEnd ==
    /\ pc = "blocks"
    /\ image_blocks = n_blocks
    /\ i' = i + 4 + data_length
    /\ pc' = "scan"
    /\ UNCHANGED <<vec, overflow_checks, scan_started, decoded, result, hdr_read, jfif_image, comment,
                   data_length, scan, n_blocks, image_blocks, dequantized, zz_vars>>

Next ==
    \/ ParsePreamble
    \/ ParseApp0
    \/ LoopHeadPanic
    \/ Comment
    \/ QuantizationTable
    \/ BaselineDCT
    \/ DefineHuffmanTable
    \/ StartOfScan
    \/ DecodeBlock
    \/ ScanEnd
    \/ RestartInterval
    \/ Unhandled

Spec == Init /\ [][Next]_vars

\* parse is one sequential call: while a step is possible, one is taken
SpecFair == Spec /\ WF_vars(Next)

(* ------------------------------ zigzag() -------------------------------- *)

\* line 385: the index table of zigzag(), 0-based indices into its argument
indices ==
    <<0, 1, 8, 16, 9, 2, 3, 10, 17, 24, 32, 25, 18, 11, 4, 5, 12, 19, 26, 33, 40, 48,
      41, 34, 27, 20, 13, 6, 7, 14, 21, 28, 35, 42, 49, 56, 57, 50, 43, 36, 29, 22,
      15, 23, 30, 37, 44, 51, 58, 59, 52, 45, 38, 31, 39, 46, 53, 60, 61, 54, 47, 55,
      62, 53>>

\* lines 389-393: res[k] = vec[indices[k]]
zigzag(v) == [k \in 1..Len(indices) |-> v[indices[k] + 1]]

\* the arguments zigzag() is run on: the sequences a*k + b modulo 64 for odd a
\* (64 distinct elements), constant sequences, and sequences of 63 and 65
ZigzagInputs ==
    {[k \in 1..64 |-> (a * (k - 1) + b) % 64] : a \in {1, 3, 5, 7}, b \in 0..MaxOffset}
        \cup {[k \in 1..64 |-> b] : b \in 0..MaxOffset}
        \cup {[k \in 1..n |-> k + b] : n \in {0, 63, 65}, b \in 0..MaxOffset}

InitZigzag ==
    /\ zz_pc = "call"
    /\ zz_vec \in ZigzagInputs
    /\ zz_res = <<>>
    /\ vec = <<>>
    /\ overflow_checks = FALSE
    /\ pc = "idle"
    /\ result = NoResult
    /\ hdr_read = -1
    /\ jfif_image = None
    /\ comment = None
    /\ i = 0
    /\ data_length = 0
    /\ scan = NoScan
    /\ n_blocks = 0
    /\ image_blocks = 0
    /\ dequantized = <<>>
    /\ decoded = <<>>
    /\ scan_started = FALSE

\* lines 377-394
Zigzag ==
    /\ zz_pc = "call"
    /\ IF Len(zz_vec) # 64
       THEN zz_pc' = "panicked" /\ UNCHANGED zz_res
       ELSE zz_pc' = "returned" /\ zz_res' = zigzag(zz_vec)
    /\ UNCHANGED <<vec, overflow_checks, scan_started, decoded, pc, result, hdr_read, jfif_image, comment, i,
                   data_length, scan, n_blocks, image_blocks, dequantized, zz_vec>>

NextZigzag == Zigzag

SpecZigzag == InitZigzag /\ [][NextZigzag]_vars

(* ------------------------------- claims -------------------------------- *)

\* bytes 0-3 and 6-10 of the buffer are FF D8 FF E0 and 'J' 'F' 'I' 'F' 00
SignatureMatches ==
    /\ SubSeq(vec, 1, 4) = <<255, 216, 255, 224>>
    /\ SubSeq(vec, 7, 11) = <<74, 70, 73, 70, 0>>

\* C1: once the preamble check has run, a buffer shorter than 11 bytes has
\* made parse return the error "input is too short", and a buffer of at least
\* 11 bytes whose bytes 0-3 and 6-10 are not the JFIF signature has made it
\* return the error "Header mismatch", whatever bytes 4 and 5 are; in both
\* cases parse returned (no panic) and read no byte at index 11 or above.
C1_PreambleRejects ==
    pc \notin {"preamble", "idle"} =>
        /\ Len(vec) < 11 =>
              pc = "done" /\ result = Err("input is too short") /\ hdr_read = -1
        /\ (Len(vec) >= 11 /\ ~SignatureMatches) =>
              pc = "done" /\ result = Err("Header mismatch") /\ hdr_read <= 10

\* C1's case: a buffer of at least 11 bytes with a length field other than 16
\* and a byte of the signature altered has been rejected
C1_Witness ==
    /\ pc = "done"
    /\ result = Err("Header mismatch")
    /\ Len(vec) >= 11
    /\ B(5) = 19
    /\ SubSeq(vec, 1, 4) = <<255, 216, 255, 224>>

\* C2: whatever the input, parse ends by returning a value, a decoded result
\* or an error; it never ends in a panic.
C2_AlwaysReturns == pc = "done" => result.kind \in {"Ok", "Err"}

\* C3: when the marker scanner is at a position whose two marker bytes are not
\* a recognized marker, the step ends parse with an unrecognized-marker error
\* that carries the offset of the marker, and leaves the decoder state alone.
C3_UnrecognizedMarkerError ==
    [][(pc = "scan" /\ i + 1 < Len(vec) /\ Marker \notin Recognized) =>
           /\ pc' = "done"
           /\ result' = [kind |-> "Err", msg |-> "UnrecognizedMarker", offset |-> i]
           /\ jfif_image' = jfif_image]_vars

\* the scan header at the cursor is complete and has one component
AtScanHeader ==
    /\ pc = "scan"
    /\ i + 9 < Len(vec)
    /\ Marker = <<255, 218>>
    /\ SegmentLength >= 2
    /\ B(i + 4) = 1

\* the table slot `id` of `tables` holds a table
Defined(tables, id) == id \in 0..3 /\ tables[id] # None

\* the scan header at the cursor selects a Huffman table that no segment has
\* defined, or a component whose quantization table no segment has defined
SelectsUndefinedTable ==
    \/ ~Defined(jfif_image.huffman_dc_tables, B(i + 6) \div 16)
    \/ ~Defined(jfif_image.huffman_ac_tables, B(i + 6) % 16)
    \/ /\ jfif_image.frame_header # None
       /\ \E k \in DOMAIN jfif_image.frame_header.frame_components :
              LET c == jfif_image.frame_header.frame_components[k]
              IN  /\ c.component_id = B(i + 5)
                  /\ ~Defined(jfif_image.quantization_tables, c.quantization_selector)

\* C4: a Start of Scan segment that selects a DC or AC Huffman table id, or
\* through its frame component a quantization table id, that no earlier
\* segment defined ends parse with the MissingTable error.
C4_MissingTableError ==
    [][(AtScanHeader /\ SelectsUndefinedTable) =>
           (pc' = "done" /\ result' = Err("MissingTable"))]_vars

\* C5: on a well-formed single-frame, single-scan, single-component stream
\* parse ends by returning the decoded image, whose width and height are the
\* frame header's samples per line and number of lines.
C5_WellFormedDecodes ==
    (pc = "done" /\ vec \in WellFormedStreams) =>
        /\ result.kind = "Ok"
        /\ result.width = jfif_image.frame_header.samples_per_line
        /\ result.height = jfif_image.frame_header.num_lines

\* ceil(d / 8)
CeilDiv8(d) == (d + 7) \div 8

\* C6: when the block loop of a scan has run to its end, the number of blocks
\* it decoded is ceil(width/8) * ceil(height/8) for the width and height of
\* the frame header.
C6_BlockCount ==
    (pc = "blocks" /\ image_blocks = n_blocks) =>
        image_blocks = CeilDiv8(jfif_image.frame_header.samples_per_line)
                           * CeilDiv8(jfif_image.frame_header.num_lines)

\* the number of positions of s that hold x
Count(s, x) == Cardinality({k \in DOMAIN s : s[k] = x})

\* C7: the result of zigzag() is a rearrangement of its 64-element argument:
\* every element occurs in the result as often as in the argument.
C7_ZigzagRearranges ==
    zz_pc = "returned" =>
        /\ Len(zz_res) = 64
        /\ \A k \in 1..64 : Count(zz_res, zz_vec[k]) = Count(zz_vec, zz_vec[k])

\* C8: the cursor follows the declared segment lengths: the first marker is
\* examined at 4 + the APP0 length (an APP0 segment of JFIF has a length of at
\* least 16), a segment with marker at i and length L is
\* followed by the marker at i + 2 + L, and after a scan the next marker is
\* examined at the first byte after the data the block loop consumed.
C8_CursorFollowsLengths ==
    [][/\ (pc = "app0" /\ pc' = "scan" /\ u8s_to_u16(SubSeq(vec, 5, 6)) >= 16) =>
              i' = 4 + u8s_to_u16(SubSeq(vec, 5, 6))
       /\ (pc = "scan" /\ pc' = "scan") => i' = i + 2 + SegmentLength
       /\ (pc = "blocks" /\ pc' = "scan") => i' = i]_vars

\* C9: every defined quantization table slot holds exactly 64 entries.
C9_QuantTables64 ==
    jfif_image # None =>
        \A id \in 0..3 :
            jfif_image.quantization_tables[id] # None =>
                Len(jfif_image.quantization_tables[id]) = 64

\* the cursor is at a comment segment that lies within the buffer and whose
\* payload is not valid UTF-8
AtInvalidComment ==
    /\ pc = "scan"
    /\ i + 3 < Len(vec)
    /\ Marker = <<255, 254>>
    /\ SegmentLength >= 2
    /\ i + 2 + SegmentLength <= Len(vec)
    /\ ~from_utf8(SubSeq(vec, i + 5, i + 2 + SegmentLength))

\* C10: a comment segment whose payload is not valid UTF-8 does not end parse:
\* the comment becomes the empty string, the Huffman tables, quantization
\* tables and frame header stay as they are, and the cursor moves to the
\* segment that follows the comment.
C10_InvalidCommentNotFatal ==
    [][AtInvalidComment =>
           /\ pc' = "scan"
           /\ result' = NoResult
           /\ comment' = <<>>
           /\ jfif_image' = jfif_image
           /\ i' = i + 2 + SegmentLength]_vars

\* C10's case: the first segment is a comment with an invalid payload, the
\* scanner has handled it and is at the segment that follows it
C10_Witness ==
    /\ pc = "scan"
    /\ Len(vec) >= 24
    /\ SubSeq(vec, 21, 22) = <<255, 254>>
    /\ i = 22 + u8s_to_u16(SubSeq(vec, 23, 24))
    /\ i + 3 < Len(vec)
    /\ ~from_utf8(SubSeq(vec, 25, i))
    /\ comment = <<>>
    /\ result = NoResult

\* an optional slot holds the same thing in both states: empty in both, or the
\* same table (the same frame header) in both
SameSlot(a, b) == IF a = None THEN b = None ELSE (b # None /\ a = b)

\* the four table slots of `tables` and of `later` hold the same things
SameTables(tables, later) == \A id \in 0..3 : SameSlot(tables[id], later[id])

\* C11: once the marker scanner has begun handling a Start of Scan segment,
\* no step of parse changes a Huffman table slot, a quantization table slot or
\* the frame header again, in the block loop or in a later segment.
C11_TablesReadOnlyAfterScan ==
    [][scan_started =>
           /\ SameTables(jfif_image.huffman_dc_tables, jfif_image'.huffman_dc_tables)
           /\ SameTables(jfif_image.huffman_ac_tables, jfif_image'.huffman_ac_tables)
           /\ SameTables(jfif_image.quantization_tables, jfif_image'.quantization_tables)
           /\ SameSlot(jfif_image.frame_header, jfif_image'.frame_header)]_vars

\* C12: every value of a dequantized block is the exact integer product of the
\* quantization table's entry and the decoded coefficient at its position;
\* the i16 multiplication of the scan loop neither wraps the product nor fails
\* on it.
C12_ExactProducts ==
    /\ result # Panic("attempt to multiply with overflow")
    /\ (pc = "blocks" /\ dequantized # <<>>) =>
           \A k \in DOMAIN dequantized :
               dequantized[k] =
                   jfif_image.quantization_tables[scan.quant_table_id][k] * decoded[k]

\* one step of the marker scanner moves the cursor as an iteration of the loop
\* of lines 133-319 does: a segment other than a scan moves it by 2 plus the
\* declared length, a scan header and the end of a scan move it forward, a
\* block never moves it back, and a step that ends parse never moves it back
CursorAdvances ==
    /\ (pc = "scan" /\ pc' = "scan") => (i' = i + 2 + SegmentLength /\ i' > i)
    /\ (pc = "scan" /\ pc' = "blocks") => i' > i
    /\ (pc = "blocks" /\ pc' = "blocks") => i' >= i
    /\ (pc = "blocks" /\ pc' = "scan") => i' > i
    /\ (pc \in {"scan", "blocks"} /\ pc' = "done") => i' >= i

\* C13: the marker-scanner loop terminates on every input: every iteration
\* that does not end the loop leaves the cursor at a strictly greater offset,
\* so no segment is examined twice, and parse eventually ends, by stopping or
\* by failing.
C13_ScannerTerminates ==
    /\ [][CursorAdvances]_vars
    /\ <>(pc = "done")

\* parse has ended after the scanner handled a scan with a decoded block and a
\* quantization table that follows the scan
C13_Witness ==
    /\ pc = "done"
    /\ scan_started
    /\ image_blocks >= 1
    /\ jfif_image.quantization_tables[1] # None
    /\ i > 214

==========================================================================
